---- MODULE Spec2Model ----
(***************************************************************************)
(* Guard expressions of the Calyx IR (calyx/src/ir/guard.rs).              *)
(*                                                                         *)
(* A guard is a finite tree.  The model keeps one guard under construction *)
(* (`guard`).  A step either calls one operation of guard.rs on it and     *)
(* records the call (operation, operands, returned value), or lets the     *)
(* caller go on, which forgets the record of the last call.  Nothing       *)
(* follows a panic.                                                        *)
(***************************************************************************)
EXTENDS Integers, Sequences, FiniteSets, TLC

VARIABLES
    guard,      \* the guard the program currently owns (`self`)
    op,         \* the operation of guard.rs just called, "idle" between calls
    args,       \* the guards that operation was given, in argument order
    fn,         \* the rewrite closure given to for_each (port -> Option<Guard>)
    ret,        \* what the operation returned
    calls,      \* the ports the rewrite closure was invoked with, in order
    panicked    \* TRUE iff the operation aborted with panic!

vars == <<guard, op, args, fn, ret, calls, panicked>>

----------------------------------------------------------------------------
(* Bounds of the model *)

\* largest guard (number of nodes) the program is allowed to build
MaxNodes == 4

----------------------------------------------------------------------------
(* Ports: opaque handles owned by the rest of the IR *)

Ports == {"p1", "p2", "c1"}

\* Port::is_constant(val): the port is the output of a constant cell of value val
is_constant(p, val) == p = "c1" /\ val = 1

\* Option<Guard>
None == <<>>
Some(x) == <<x>>

----------------------------------------------------------------------------
(* enum Guard *)

Or(gs) == [tag |-> "Or", gs |-> gs]
And(gs) == [tag |-> "And", gs |-> gs]
Eq(l, r) == [tag |-> "Eq", l |-> l, r |-> r]
Neq(l, r) == [tag |-> "Neq", l |-> l, r |-> r]
Gt(l, r) == [tag |-> "Gt", l |-> l, r |-> r]
Lt(l, r) == [tag |-> "Lt", l |-> l, r |-> r]
Geq(l, r) == [tag |-> "Geq", l |-> l, r |-> r]
Leq(l, r) == [tag |-> "Leq", l |-> l, r |-> r]
Not(g) == [tag |-> "Not", g |-> g]
Port(p) == [tag |-> "Port", port |-> p]
True == [tag |-> "True"]

Variadic == {"Or", "And"}
Binary == {"Eq", "Neq", "Gt", "Lt", "Geq", "Leq"}

----------------------------------------------------------------------------
(* Guard::all_ports *)

RECURSIVE all_ports(_)
RECURSIVE all_ports_flat(_, _)
\* gs.iter().map(|g| g.all_ports()).flatten().collect(), from element i on
all_ports_flat(gs, i) ==
    IF i > Len(gs) THEN <<>>
    ELSE all_ports(gs[i]) \o all_ports_flat(gs, i + 1)

\* all_ports that collects the right operand of a comparison first
all_ports_right_first(self) ==
    CASE self.tag = "Port" -> <<self.port>>
      [] self.tag \in Variadic -> all_ports_flat(self.gs, 1)
      [] self.tag \in Binary -> all_ports(self.r) \o all_ports(self.l)
      [] self.tag = "Not" -> all_ports(self.g)
      [] self.tag = "True" -> <<>>

all_ports(self) ==
    CASE self.tag = "Port" -> <<self.port>>
      [] self.tag \in Variadic -> all_ports_flat(self.gs, 1)
      [] self.tag \in Binary -> all_ports(self.l) \o all_ports(self.r)
      [] self.tag = "Not" -> all_ports(self.g)
      [] self.tag = "True" -> <<>>

----------------------------------------------------------------------------
(* Guard::for_each.  The result carries the rewritten tree (`self` after   *)
(* the call) and the ports the closure f was invoked with, in call order.  *)

RECURSIVE for_each(_, _)
RECURSIVE for_each_iter(_, _, _)
\* ands.iter_mut().for_each(|guard| guard.for_each(f)), from element i on
for_each_iter(gs, f, i) ==
    IF i > Len(gs) THEN [gs |-> <<>>, calls |-> <<>>]
    ELSE LET hd == for_each(gs[i], f)
             tl == for_each_iter(gs, f, i + 1)
         IN  [gs |-> <<hd.self>> \o tl.gs, calls |-> hd.calls \o tl.calls]

\* for_each that does not descend into the right operand of a comparison
for_each_left_only(self, f) ==
    CASE self.tag \in Variadic ->
            LET it == for_each_iter(self.gs, f, 1)
            IN  [self |-> [self EXCEPT !.gs = it.gs], calls |-> it.calls]
      [] self.tag \in Binary ->
            LET l == for_each(self.l, f)
            IN  [self |-> [self EXCEPT !.l = l.self], calls |-> l.calls]
      [] self.tag = "Not" ->
            LET inner == for_each(self.g, f)
            IN  [self |-> [self EXCEPT !.g = inner.self], calls |-> inner.calls]
      [] self.tag = "Port" ->
            [self |-> IF f[self.port] = None THEN Port(self.port)
                      ELSE f[self.port][1],
             calls |-> <<self.port>>]
      [] self.tag = "True" -> [self |-> self, calls |-> <<>>]

for_each(self, f) ==
    CASE self.tag \in Variadic ->
            LET it == for_each_iter(self.gs, f, 1)
            IN  [self |-> [self EXCEPT !.gs = it.gs], calls |-> it.calls]
      [] self.tag \in Binary ->
            LET l == for_each(self.l, f)
                r == for_each(self.r, f)
            IN  [self |-> [self EXCEPT !.l = l.self, !.r = r.self],
                 calls |-> l.calls \o r.calls]
      [] self.tag = "Not" ->
            LET inner == for_each(self.g, f)
            IN  [self |-> [self EXCEPT !.g = inner.self], calls |-> inner.calls]
      [] self.tag = "Port" ->
            [self |-> IF f[self.port] = None THEN Port(self.port)
                      ELSE f[self.port][1],
             calls |-> <<self.port>>]
      [] self.tag = "True" -> [self |-> self, calls |-> <<>>]

----------------------------------------------------------------------------
(* Guard::op_str: the operator symbol, or a panic *)

Returned(s) == [panic |-> FALSE, val |-> s]
Panic == [panic |-> TRUE, val |-> "No operator string for Guard::Port"]

\* op_str that has a symbol for True
op_str_true_symbol(self) ==
    CASE self.tag = "And" -> Returned("&")
      [] self.tag = "Or" -> Returned("|")
      [] self.tag = "Eq" -> Returned("==")
      [] self.tag = "Neq" -> Returned("!=")
      [] self.tag = "Gt" -> Returned(">")
      [] self.tag = "Lt" -> Returned("<")
      [] self.tag = "Geq" -> Returned(">=")
      [] self.tag = "Leq" -> Returned("<=")
      [] self.tag = "Not" -> Returned("!")
      [] self.tag = "True" -> Returned("1")
      [] self.tag = "Port" -> Panic

op_str(self) ==
    CASE self.tag = "And" -> Returned("&")
      [] self.tag = "Or" -> Returned("|")
      [] self.tag = "Eq" -> Returned("==")
      [] self.tag = "Neq" -> Returned("!=")
      [] self.tag = "Gt" -> Returned(">")
      [] self.tag = "Lt" -> Returned("<")
      [] self.tag = "Geq" -> Returned(">=")
      [] self.tag = "Leq" -> Returned("<=")
      [] self.tag = "Not" -> Returned("!")
      [] self.tag \in {"Port", "True"} -> Panic

----------------------------------------------------------------------------
(* Guard::and_vec and the other constructors *)

RECURSIVE flat_atoms(_, _)
\* the loop over `guards`, from element i on: an And contributes its own
\* operands, anything else is pushed as it is
flat_atoms(guards, i) ==
    IF i > Len(guards) THEN <<>>
    ELSE (IF guards[i].tag = "And" THEN guards[i].gs ELSE <<guards[i]>>)
         \o flat_atoms(guards, i + 1)

\* retain_pred that tests for the True variant only
retain_pred_true_only(g) == g.tag # "True"

\* the closure given to flat_atoms.retain
retain_pred(g) ==
    IF g.tag = "Port" THEN ~is_constant(g.port, 1)
    ELSE g.tag # "True"

\* and_vec without the one-element case
and_vec_no_single(guards) == And(SelectSeq(flat_atoms(guards, 1), retain_pred))

and_vec(guards) ==
    IF Len(guards) = 1 THEN guards[1]
    ELSE And(SelectSeq(flat_atoms(guards, 1), retain_pred))

and(self, rhs) == and_vec(<<self, rhs>>)
or(self, other) == Or(<<self, other>>)
eq(self, other) == Eq(self, other)
neq(self, other) == Neq(self, other)
le(self, other) == Leq(self, other)
lt(self, other) == Lt(self, other)
ge(self, other) == Geq(self, other)
gt(self, other) == Gt(self, other)

\* not that takes Lt for the complement of Gt, and Gt for that of Lt
not_strict_swap(self) ==
    CASE self.tag = "Eq" -> Neq(self.l, self.r)
      [] self.tag = "Neq" -> Eq(self.l, self.r)
      [] self.tag = "Gt" -> Lt(self.l, self.r)
      [] self.tag = "Lt" -> Gt(self.l, self.r)
      [] self.tag = "Geq" -> Leq(self.l, self.r)
      [] self.tag = "Leq" -> Geq(self.l, self.r)
      [] self.tag = "Not" -> self.g
      [] OTHER -> Not(self)

not(self) ==
    CASE self.tag = "Eq" -> Neq(self.l, self.r)
      [] self.tag = "Neq" -> Eq(self.l, self.r)
      [] self.tag = "Gt" -> Leq(self.l, self.r)
      [] self.tag = "Lt" -> Geq(self.l, self.r)
      [] self.tag = "Geq" -> Lt(self.l, self.r)
      [] self.tag = "Leq" -> Gt(self.l, self.r)
      [] self.tag = "Not" -> self.g
      [] OTHER -> Not(self)

\* impl From<RRC<Port>> for Guard
from(port) == Port(port)

\* operator sugar: &, | and !
bitand(self, other) == and(self, other)
bitor(self, other) == or(self, other)
Not_not(self) == not(self)

----------------------------------------------------------------------------
(* impl PartialEq, PartialOrd, Ord for Guard *)

\* equality that tells two Port leaves of different ports apart
PartialEq_eq_by_port(self, other) ==
    \/ self.tag = "Or" /\ other.tag = "Or"
    \/ self.tag = "And" /\ other.tag = "And"
    \/ self.tag = "Eq" /\ other.tag = "Eq"
    \/ self.tag = "Neq" /\ other.tag = "Neq"
    \/ self.tag = "Gt" /\ other.tag = "Gt"
    \/ self.tag = "Lt" /\ other.tag = "Lt"
    \/ self.tag = "Geq" /\ other.tag = "Geq"
    \/ self.tag = "Leq" /\ other.tag = "Leq"
    \/ self.tag = "Not" /\ other.tag = "Not"
    \/ self.tag = "Port" /\ other.tag = "Port" /\ self.port = other.port
    \/ self.tag = "True" /\ other.tag = "True"

PartialEq_eq(self, other) ==
    \/ self.tag = "Or" /\ other.tag = "Or"
    \/ self.tag = "And" /\ other.tag = "And"
    \/ self.tag = "Eq" /\ other.tag = "Eq"
    \/ self.tag = "Neq" /\ other.tag = "Neq"
    \/ self.tag = "Gt" /\ other.tag = "Gt"
    \/ self.tag = "Lt" /\ other.tag = "Lt"
    \/ self.tag = "Geq" /\ other.tag = "Geq"
    \/ self.tag = "Leq" /\ other.tag = "Leq"
    \/ self.tag = "Not" /\ other.tag = "Not"
    \/ self.tag = "Port" /\ other.tag = "Port"
    \/ self.tag = "True" /\ other.tag = "True"

\* cmp with the Lt and Gt arms in each other's place
cmp_gt_above_lt(self, other) ==
    IF PartialEq_eq(self, other) THEN "Equal"
    ELSE IF self.tag = "Or" THEN "Greater"
    ELSE IF other.tag = "Or" THEN "Less"
    ELSE IF self.tag = "And" THEN "Greater"
    ELSE IF other.tag = "And" THEN "Less"
    ELSE IF self.tag = "Leq" THEN "Greater"
    ELSE IF other.tag = "Leq" THEN "Less"
    ELSE IF self.tag = "Geq" THEN "Greater"
    ELSE IF other.tag = "Geq" THEN "Less"
    ELSE IF self.tag = "Gt" THEN "Greater"
    ELSE IF other.tag = "Gt" THEN "Less"
    ELSE IF self.tag = "Lt" THEN "Greater"
    ELSE IF other.tag = "Lt" THEN "Less"
    ELSE IF self.tag = "Eq" THEN "Greater"
    ELSE IF other.tag = "Eq" THEN "Less"
    ELSE IF self.tag = "Neq" THEN "Greater"
    ELSE IF other.tag = "Neq" THEN "Less"
    ELSE IF self.tag = "Not" THEN "Greater"
    ELSE IF other.tag = "Not" THEN "Less"
    ELSE IF self.tag = "Port" THEN "Greater"
    ELSE IF other.tag = "Port" THEN "Less"
    ELSE "Greater"

\* cmp with the arms of True ahead of the arms of Port
cmp_true_above_port(self, other) ==
    IF PartialEq_eq(self, other) THEN "Equal"
    ELSE IF self.tag = "Or" THEN "Greater"
    ELSE IF other.tag = "Or" THEN "Less"
    ELSE IF self.tag = "And" THEN "Greater"
    ELSE IF other.tag = "And" THEN "Less"
    ELSE IF self.tag = "Leq" THEN "Greater"
    ELSE IF other.tag = "Leq" THEN "Less"
    ELSE IF self.tag = "Geq" THEN "Greater"
    ELSE IF other.tag = "Geq" THEN "Less"
    ELSE IF self.tag = "Lt" THEN "Greater"
    ELSE IF other.tag = "Lt" THEN "Less"
    ELSE IF self.tag = "Gt" THEN "Greater"
    ELSE IF other.tag = "Gt" THEN "Less"
    ELSE IF self.tag = "Eq" THEN "Greater"
    ELSE IF other.tag = "Eq" THEN "Less"
    ELSE IF self.tag = "Neq" THEN "Greater"
    ELSE IF other.tag = "Neq" THEN "Less"
    ELSE IF self.tag = "Not" THEN "Greater"
    ELSE IF other.tag = "Not" THEN "Less"
    ELSE IF self.tag = "True" THEN "Greater"
    ELSE IF other.tag = "True" THEN "Less"
    ELSE "Greater"

cmp(self, other) ==
    IF PartialEq_eq(self, other) THEN "Equal"
    ELSE IF self.tag = "Or" THEN "Greater"
    ELSE IF other.tag = "Or" THEN "Less"
    ELSE IF self.tag = "And" THEN "Greater"
    ELSE IF other.tag = "And" THEN "Less"
    ELSE IF self.tag = "Leq" THEN "Greater"
    ELSE IF other.tag = "Leq" THEN "Less"
    ELSE IF self.tag = "Geq" THEN "Greater"
    ELSE IF other.tag = "Geq" THEN "Less"
    ELSE IF self.tag = "Lt" THEN "Greater"
    ELSE IF other.tag = "Lt" THEN "Less"
    ELSE IF self.tag = "Gt" THEN "Greater"
    ELSE IF other.tag = "Gt" THEN "Less"
    ELSE IF self.tag = "Eq" THEN "Greater"
    ELSE IF other.tag = "Eq" THEN "Less"
    ELSE IF self.tag = "Neq" THEN "Greater"
    ELSE IF other.tag = "Neq" THEN "Less"
    ELSE IF self.tag = "Not" THEN "Greater"
    ELSE IF other.tag = "Not" THEN "Less"
    ELSE IF self.tag = "Port" THEN "Greater"
    ELSE IF other.tag = "Port" THEN "Less"
    ELSE "Greater"

partial_cmp(self, other) == Some(cmp(self, other))

----------------------------------------------------------------------------
(* Helpers of the state machine *)

RECURSIVE Size(_)
RECURSIVE SizeAll(_, _)
SizeAll(gs, i) == IF i > Len(gs) THEN 0 ELSE Size(gs[i]) + SizeAll(gs, i + 1)
\* number of nodes of a guard
Size(g) ==
    CASE g.tag \in Variadic -> 1 + SizeAll(g.gs, 1)
      [] g.tag \in Binary -> 1 + Size(g.l) + Size(g.r)
      [] g.tag = "Not" -> 1 + Size(g.g)
      [] OTHER -> 1

RECURSIVE SubGuards(_)
\* the guard and every guard below it
SubGuards(g) ==
    {g} \cup
    CASE g.tag \in Variadic -> UNION {SubGuards(g.gs[i]) : i \in 1..Len(g.gs)}
      [] g.tag \in Binary -> SubGuards(g.l) \cup SubGuards(g.r)
      [] g.tag = "Not" -> SubGuards(g.g)
      [] OTHER -> {}

Leaves == {True} \cup {Port(p) : p \in Ports}

\* guards the program has at hand to pass as an operand: a leaf, or a clone
\* of (a part of) the guard it owns
Operands == Leaves \cup SubGuards(guard)

\* sequences over S of length at most n
SeqUpTo(S, n) == UNION {[1..k -> S] : k \in 0..n}

\* the rewrite closures: replace the ports of `ps` by `to`, keep the others
Rewrite(ps, to) == [p \in Ports |-> IF p \in ps THEN Some(to) ELSE None]
\* the sets of ports a closure replaces
Replaced == SUBSET Ports
NoFn == [p \in Ports |-> None]

\* one guard of every variant, to compare the owned guard with
Others ==
    {Or(<<Port("p1"), True>>), And(<<Port("p2")>>), Not(Port("p1")),
     Eq(Port("p1"), Port("p2")), Neq(Port("p1"), Port("p2")),
     Gt(Port("p1"), Port("c1")), Lt(Port("p2"), Port("p1")),
     Geq(True, Port("p1")), Leq(Port("p1"), Port("p1")),
     Port("p2"), True, And(<<>>), Or(<<>>)}

----------------------------------------------------------------------------
(* The state machine: one operation of guard.rs per step *)

Init ==
    /\ guard = True
    /\ op = "idle"
    /\ args = <<>>
    /\ fn = NoFn
    /\ ret = <<>>
    /\ calls = <<>>
    /\ panicked = FALSE

Idle == op = "idle"

\* a constructor consumed its operands `a` and returned the guard r
Built(name, a, r) ==
    /\ Size(r) <= MaxNodes
    /\ guard' = r
    /\ op' = name
    /\ args' = a
    /\ ret' = r
    /\ fn' = NoFn
    /\ calls' = <<>>
    /\ panicked' = FALSE

\* a query read `a` and returned r; the owned guard is not touched
Queried(name, a, r) ==
    /\ op' = name
    /\ args' = a
    /\ ret' = r
    /\ fn' = NoFn
    /\ calls' = <<>>
    /\ panicked' = FALSE
    /\ UNCHANGED guard

\* the two argument orders of a binary operation on the owned guard
Pairs(S) == {<<guard, x>> : x \in S} \cup {<<x, guard>> : x \in S}

From == Idle /\ \E p \in Ports : Built("from", <<>>, from(p))

\* operand lists are made of the owned guard and of leaves, as many as the
\* node budget leaves room for
AndVec ==
    /\ Idle
    /\ \E guards \in SeqUpTo({guard} \cup Leaves, MaxNodes + 1 - Size(guard)) :
           Built("and_vec", guards, and_vec(guards))

AndOp == Idle /\ \E a \in Pairs(Operands) : Built("and", a, and(a[1], a[2]))
BitAndOp ==
    Idle /\ \E a \in Pairs(Operands) : Built("bitand", a, bitand(a[1], a[2]))
OrOp == Idle /\ \E a \in Pairs(Operands) : Built("or", a, or(a[1], a[2]))
BitOrOp ==
    Idle /\ \E a \in Pairs(Operands) : Built("bitor", a, bitor(a[1], a[2]))
EqOp == Idle /\ \E a \in Pairs(Operands) : Built("eq", a, eq(a[1], a[2]))
NeqOp == Idle /\ \E a \in Pairs(Operands) : Built("neq", a, neq(a[1], a[2]))
LeOp == Idle /\ \E a \in Pairs(Operands) : Built("le", a, le(a[1], a[2]))
LtOp == Idle /\ \E a \in Pairs(Operands) : Built("lt", a, lt(a[1], a[2]))
GeOp == Idle /\ \E a \in Pairs(Operands) : Built("ge", a, ge(a[1], a[2]))
GtOp == Idle /\ \E a \in Pairs(Operands) : Built("gt", a, gt(a[1], a[2]))
NotOp == Idle /\ Built("not", <<guard>>, not(guard))
NotSugar == Idle /\ Built("!", <<guard>>, Not_not(guard))

ForEach ==
    /\ Idle
    /\ \E ps \in Replaced, to \in Operands :
        LET f == Rewrite(ps, to)
            r == for_each(guard, f)
        IN  /\ Size(r.self) <= MaxNodes
            /\ guard' = r.self
            /\ op' = "for_each"
            /\ args' = <<guard>>
            /\ fn' = f
            /\ ret' = <<>>
            /\ calls' = r.calls
            /\ panicked' = FALSE

AllPorts == Idle /\ Queried("all_ports", <<guard>>, all_ports(guard))

OpStr ==
    /\ Idle
    /\ LET r == op_str(guard)
       IN  /\ op' = "op_str"
           /\ args' = <<guard>>
           /\ ret' = IF r.panic THEN <<>> ELSE r.val
           /\ panicked' = r.panic
           /\ fn' = NoFn
           /\ calls' = <<>>
           /\ UNCHANGED guard

EqEq ==
    /\ Idle
    /\ \E other \in Others :
           Queried("==", <<guard, other>>, PartialEq_eq(guard, other))
Cmp ==
    /\ Idle
    /\ \E other \in Others :
           Queried("cmp", <<guard, other>>, cmp(guard, other))
PartialCmp ==
    /\ Idle
    /\ \E other \in Others :
           Queried("partial_cmp", <<guard, other>>, partial_cmp(guard, other))

\* the caller goes on with the guard it owns; a panic ends the program
Continue ==
    /\ ~Idle
    /\ ~panicked
    /\ op' = "idle"
    /\ args' = <<>>
    /\ fn' = NoFn
    /\ ret' = <<>>
    /\ calls' = <<>>
    /\ panicked' = FALSE
    /\ UNCHANGED guard

Next ==
    \/ From
    \/ AndVec
    \/ AndOp
    \/ BitAndOp
    \/ OrOp
    \/ BitOrOp
    \/ EqOp
    \/ NeqOp
    \/ LeOp
    \/ LtOp
    \/ GeOp
    \/ GtOp
    \/ NotOp
    \/ NotSugar
    \/ ForEach
    \/ AllPorts
    \/ OpStr
    \/ EqEq
    \/ Cmp
    \/ PartialCmp
    \/ Continue

Spec == Init /\ [][Next]_vars

----------------------------------------------------------------------------
(* Properties of and_vec / and / & *)

Conj == {"and_vec", "and", "bitand"}
IsTrueTerm(g) == g.tag = "True" \/ (g.tag = "Port" /\ g.port = "c1")
HasAndChild(g) == g.tag = "And" /\ \E i \in 1..Len(g.gs) : g.gs[i].tag = "And"

\* C1: for every operand list whose length is not one, and_vec returns an
\* And node none of whose direct children is an And node, whatever the
\* operands are (And nodes nested at any depth included); and(a, b) returns
\* what and_vec([a, b]) returns.
C1_AndVecNeverNested ==
    /\ (op \in Conj /\ Len(args) # 1) =>
           (ret.tag = "And" /\ ~HasAndChild(ret))
    /\ (op \in {"and", "bitand"}) => (Len(args) = 2 /\ ret = and_vec(args))

\* the operands of a conjunction, an And operand standing for its own
\* operands, read from the last operand backwards
RECURSIVE Spread(_, _)
Spread(a, n) ==
    IF n = 0 THEN <<>>
    ELSE Spread(a, n - 1) \o (IF a[n].tag = "And" THEN a[n].gs ELSE <<a[n]>>)

\* s without its true / constant-one terms, order kept
RECURSIVE Remaining(_, _)
Remaining(s, n) ==
    IF n = 0 THEN <<>>
    ELSE Remaining(s, n - 1) \o (IF IsTrueTerm(s[n]) THEN <<>> ELSE <<s[n]>>)

\* C2: for every operand list whose length is not one, and_vec returns an
\* And whose children hold no True and no constant-1 port and are exactly
\* the remaining operands (an And operand contributing its children in
\* place), in order; and(True, True) is the empty And and and(True, x) is
\* And([x]) for x neither an And nor a true term.
C2_AndVecFilters ==
    (op \in Conj /\ Len(args) # 1) =>
        /\ ret.tag = "And"
        /\ \A i \in 1..Len(ret.gs) : ~IsTrueTerm(ret.gs[i])
        /\ LET all == Spread(args, Len(args))
           IN  ret.gs = Remaining(all, Len(all))
        /\ (args = <<True, True>>) => (ret = [tag |-> "And", gs |-> <<>>])
        /\ (Len(args) = 2 /\ args[1] = True /\ args[2].tag # "And"
              /\ ~IsTrueTerm(args[2])) =>
               (ret = [tag |-> "And", gs |-> <<args[2]>>])

\* a conjunction that flattened an And operand, dropped a true term and kept
\* another term
C2_Witness ==
    /\ op = "and_vec"
    /\ Len(args) = 3
    /\ \E i \in 1..3 : args[i].tag = "And" /\ Len(args[i].gs) > 0
    /\ \E i \in 1..3 : args[i] = True
    /\ \E i \in 1..3 : args[i] = [tag |-> "Port", port |-> "c1"]
    /\ Len(ret.gs) >= 1

\* C3: and_vec([g]) is g itself for every g: no And is wrapped around it and
\* nothing in it is flattened or filtered.
C3_AndVecSingle ==
    (op = "and_vec" /\ Len(args) = 1) => (ret = args[1] /\ guard = args[1])

\* and_vec of a single And that holds a true term, or of a single true term
C3_Witness ==
    /\ op = "and_vec"
    /\ Len(args) = 1
    /\ \/ IsTrueTerm(args[1])
       \/ /\ args[1].tag = "And"
          /\ \E i \in 1..Len(args[1].gs) :
                 IsTrueTerm(args[1].gs[i]) \/ args[1].gs[i].tag = "And"

----------------------------------------------------------------------------
(* Properties of not / ! *)

Complement(tag) ==
    CASE tag = "Eq" -> "Neq" [] tag = "Neq" -> "Eq"
      [] tag = "Gt" -> "Leq" [] tag = "Leq" -> "Gt"
      [] tag = "Lt" -> "Geq" [] tag = "Geq" -> "Lt"

\* C4: not(g) depends on the top variant of g only: a comparison becomes its
\* complement over the same operands in the same order, Not(e) becomes e,
\* And / Or / Port / True become Not(g); not applied twice to a comparison
\* gives the comparison back.
C4_NotByVariant ==
    (op \in {"not", "!"}) =>
        LET g == args[1]
        IN  /\ Len(args) = 1
            /\ (g.tag \in Binary) =>
                   /\ ret = [tag |-> Complement(g.tag), l |-> g.l, r |-> g.r]
                   /\ not(ret) = g
            /\ (g.tag = "Not") => (ret = g.g)
            /\ (g.tag \in {"And", "Or", "Port", "True"}) =>
                   (ret = [tag |-> "Not", g |-> g])

\* not of a Gt gave a Leq
C4_Witness ==
    /\ op = "not"
    /\ args[1].tag = "Gt"
    /\ ret.tag = "Leq"
    /\ args[1].l # args[1].r

----------------------------------------------------------------------------
(* Properties of for_each and all_ports *)

\* the children of a node, left to right
Kids(g) ==
    CASE g.tag \in Variadic -> g.gs
      [] g.tag \in Binary -> <<g.l, g.r>>
      [] g.tag = "Not" -> <<g.g>>
      [] OTHER -> <<>>

RECURSIVE PortLeaves(_)
RECURSIVE PortLeavesOf(_, _)
PortLeavesOf(ks, n) ==
    IF n = 0 THEN <<>> ELSE PortLeavesOf(ks, n - 1) \o PortLeaves(ks[n])
\* the ports at the Port leaves of g, one per leaf, leftmost leaf first
PortLeaves(g) ==
    IF g.tag = "Port" THEN <<g.port>> ELSE PortLeavesOf(Kids(g), Len(Kids(g)))

RECURSIVE Rewritten(_, _, _)
\* n is o with each Port(p) leaf replaced by f(p) where f returns a guard,
\* and nothing else changed
Rewritten(o, n, f) ==
    CASE o.tag = "Port" ->
            n = (IF f[o.port] = <<>> THEN o ELSE f[o.port][1])
      [] o.tag = "True" -> n = o
      [] OTHER ->
            /\ n.tag = o.tag
            /\ Len(Kids(n)) = Len(Kids(o))
            /\ \A i \in 1..Len(Kids(o)) : Rewritten(Kids(o)[i], Kids(n)[i], f)

RECURSIVE PortsAfter(_, _, _)
\* what the first n ports of ps become under f
PortsAfter(ps, n, f) ==
    IF n = 0 THEN <<>>
    ELSE PortsAfter(ps, n - 1, f) \o
         (IF f[ps[n]] = <<>> THEN <<ps[n]>> ELSE PortLeaves(f[ps[n]][1]))

\* C5: for_each(f) rewrites leaves only: the tree after the call is the
\* tree before it with each Port(p) leaf replaced by f(p) where f returns a
\* guard; f is invoked once per original Port leaf, in order, and not on the
\* ports of a replacement; the ports of the result are those of the
\* original with each replaced port giving way to the ports of f(p).
C5_ForEachLeavesOnly ==
    (op = "for_each") =>
        LET before == args[1]
            ps == PortLeaves(before)
        IN  /\ Rewritten(before, guard, fn)
            /\ calls = ps
            /\ PortLeaves(guard) = PortsAfter(ps, Len(ps), fn)

\* And([p1, p2, p1]) with every p1 leaf replaced by Port(c1)
C5_Witness ==
    /\ op = "for_each"
    /\ calls = <<"p1", "p2", "p1">>
    /\ fn["p1"] = <<[tag |-> "Port", port |-> "c1"]>>
    /\ fn["p2"] = <<>>
    /\ PortLeaves(guard) = <<"c1", "p2", "c1">>

\* C6: all_ports returns the port of every Port leaf, once per occurrence,
\* left to right, duplicates kept; the empty list when there is no Port
\* leaf; the guard is left as it was.
C6_AllPortsInOrder ==
    (op = "all_ports") =>
        /\ ret = PortLeaves(args[1])
        /\ guard = args[1]
        /\ (args[1].tag = "True" \/ args[1] = [tag |-> "And", gs |-> <<>>]) =>
               (ret = <<>>)

\* a guard that reads one port twice and another port in between
C6_Witness ==
    /\ op = "all_ports"
    /\ Len(ret) = 3
    /\ ret[1] = ret[3]
    /\ ret[1] # ret[2]

----------------------------------------------------------------------------
(* Properties of ==, cmp and partial_cmp *)

\* C7: a == b iff a and b are the same variant, whatever their operands or
\* ports; the relation is reflexive, symmetric and transitive.
C7_ShapeEquality ==
    (op = "==") =>
        LET a == args[1]
            b == args[2]
        IN  /\ ret = (a.tag = b.tag)
            /\ PartialEq_eq(a, a)
            /\ PartialEq_eq(b, a) = ret
            /\ \A c \in Others :
                   (ret /\ PartialEq_eq(b, c)) => PartialEq_eq(a, c)

\* two Port leaves of different ports compared equal
C7_Witness ==
    /\ op = "=="
    /\ args[1].tag = "Port"
    /\ args[2].tag = "Port"
    /\ args[1].port # args[2].port
    /\ ret = TRUE

\* the variants, lowest first
RankTable ==
    <<"True", "Port", "Not", "Neq", "Eq", "Gt", "Lt", "Geq", "Leq", "And", "Or">>
Rank(g) == CHOOSE i \in 1..Len(RankTable) : RankTable[i] = g.tag
ByRank(a, b) ==
    IF Rank(a) = Rank(b) THEN "Equal"
    ELSE IF Rank(a) < Rank(b) THEN "Less" ELSE "Greater"
Reverse(o) ==
    CASE o = "Less" -> "Greater" [] o = "Greater" -> "Less" [] OTHER -> "Equal"

\* C8: cmp orders guards by the rank of their variant (True lowest, Or
\* highest), same variants comparing Equal whatever their operands;
\* cmp(b, a) is the reverse of cmp(a, b), cmp is transitive, and
\* partial_cmp is Some(cmp).
C8_OrderByRank ==
    /\ (op = "cmp") =>
           LET a == args[1]
               b == args[2]
           IN  /\ ret = ByRank(a, b)
               /\ cmp(b, a) = Reverse(ret)
               /\ \A c \in Others :
                      (ret # "Greater" /\ cmp(b, c) # "Greater") =>
                          cmp(a, c) # "Greater"
    /\ (op = "partial_cmp") => (ret = <<ByRank(args[1], args[2])>>)

\* two And nodes with different operand lists compared Equal
C8_Witness ==
    /\ op = "cmp"
    /\ args[1].tag = "And"
    /\ args[2].tag = "And"
    /\ args[1].gs # args[2].gs
    /\ ret = "Equal"

\* C9 as stated: a True guard ranks above a Port guard: cmp(True, Port(p))
\* is Greater and cmp(Port(p), True) is Less.
C9_TrueAbovePort ==
    (op = "cmp") =>
        /\ (args[1].tag = "True" /\ args[2].tag = "Port") => (ret = "Greater")
        /\ (args[1].tag = "Port" /\ args[2].tag = "True") => (ret = "Less")

\* C9 amended: a True guard ranks below a Port guard: cmp(True, Port(p)) is
\* Less and cmp(Port(p), True) is Greater.
C9_TrueBelowPort ==
    (op = "cmp") =>
        /\ (args[1].tag = "True" /\ args[2].tag = "Port") => (ret = "Less")
        /\ (args[1].tag = "Port" /\ args[2].tag = "True") => (ret = "Greater")

\* True was compared with a Port
C9_Witness ==
    /\ op = "cmp"
    /\ args[1].tag = "True"
    /\ args[2].tag = "Port"
    /\ ret = "Less"

----------------------------------------------------------------------------
(* Properties of op_str and of failure *)

Symbol(tag) ==
    CASE tag = "And" -> "&" [] tag = "Or" -> "|" [] tag = "Eq" -> "=="
      [] tag = "Neq" -> "!=" [] tag = "Gt" -> ">" [] tag = "Lt" -> "<"
      [] tag = "Geq" -> ">=" [] tag = "Leq" -> "<=" [] tag = "Not" -> "!"

====
